---- MODULE Spec2Model ----
(***************************************************************************)
(* mathviz: fixed-step RK4 trajectories of four dynamical systems.         *)
(*                                                                         *)
(* The model follows src/lib/solvers.ts statement by statement.  A call of *)
(* a solve entry point is a run of actions: the entry (parameter binding,  *)
(* first point), then per loop iteration the four derivative evaluations   *)
(* of the stepper, its return, and the loop's assignment and push, then    *)
(* the return of the array.                                                *)
(*                                                                         *)
(* Numbers.  A JavaScript number is an IEEE-754 double: a finite set of    *)
(* values, every operation rounding its exact result to the nearest one    *)
(* (ties to even), results beyond the largest finite value becoming        *)
(* +-Infinity, and undefined results NaN.  The model keeps exactly this    *)
(* structure at a narrow width: the finite values are the integers of      *)
(* -MaxFinite..MaxFinite.  Negative zero is not distinguished from zero.   *)
(***************************************************************************)
EXTENDS Integers, Sequences, FiniteSets, TLC

\* ------------------------------------------------------------------ bounds
MaxFinite == 1000       \* largest finite number of the narrow format
MaxSteps  == 2          \* largest step count a caller passes
MaxCalls  == 3          \* calls a caller makes while it holds on to a result
MaxWaiting == 2         \* wrapper calls suspended at the same time
MaxLen == 6             \* longest Float64Array handed to the unflattening loops
MaxViewSteps == 30   \* steps of the longest trajectory a component shows
MaxGlueCalls == 2        \* calls of the glue a caller makes while it keeps a result

\* the cells of the linear memory: room for the largest result and a cell more
MemCells == 3 * (MaxSteps + 1) + 1

\* ------------------------------------------------------------ the numbers
PosInf == MaxFinite + 1
NegInf == 0 - PosInf
NaN    == MaxFinite + 2

\* the value of an index outside an array; not a number
Undefined == MaxFinite + 3

Finite == (0 - MaxFinite)..MaxFinite
Num    == Finite \cup {PosInf, NegInf, NaN}

isFinite(a) == a \in Finite

\* an exact integer result brought back into the format
Overflow(x) == IF x > MaxFinite THEN PosInf
               ELSE IF x < 0 - MaxFinite THEN NegInf
               ELSE x

\* a + b
Add(a, b) ==
  IF a = NaN \/ b = NaN THEN NaN
  ELSE IF a = PosInf THEN (IF b = NegInf THEN NaN ELSE PosInf)
  ELSE IF a = NegInf THEN (IF b = PosInf THEN NaN ELSE NegInf)
  ELSE IF b = PosInf \/ b = NegInf THEN b
  ELSE Overflow(a + b)

\* -a
Neg(a) == IF a = NaN THEN NaN ELSE 0 - a

\* a - b
Sub(a, b) == Add(a, Neg(b))

Sign(a) == IF a > 0 THEN 1 ELSE IF a < 0 THEN 0 - 1 ELSE 0

\* a * b
Mul(a, b) ==
  IF a = NaN \/ b = NaN THEN NaN
  ELSE IF isFinite(a) /\ isFinite(b) THEN Overflow(a * b)
  ELSE IF a = 0 \/ b = 0 THEN NaN
  ELSE IF Sign(a) = Sign(b) THEN PosInf ELSE NegInf

\* n / d for a finite n and the literal divisors 2 and 6, to nearest, ties to even
RoundDiv(n, d) ==
  LET q == n \div d
      r == n % d
  IN  IF 2 * r < d THEN q
      ELSE IF 2 * r > d THEN q + 1
      ELSE IF q % 2 = 0 THEN q ELSE q + 1

\* a / d, d a positive finite literal
Div(a, d) == IF isFinite(a) THEN RoundDiv(a, d) ELSE a

\* Math.sin: the sine of a radians rounded to the format (-1, 0 or 1).
\* Range reduction with pi = 355/113: one radian is 678 units of pi/2130,
\* sin >= 1/2 on [pi/6, 5pi/6] and sin <= -1/2 on [7pi/6, 11pi/6].
MathSin(a) ==
  IF ~isFinite(a) THEN NaN
  ELSE LET u == (678 * a) % 4260
       IN  IF u >= 355 /\ u <= 1775 THEN 1
           ELSE IF u >= 2485 /\ u <= 3905 THEN 0 - 1
           ELSE 0

\* ------------------------------------------------- derivative functions
\* Each constructor closes over its parameters; the closure is the record
\* of them, and Apply calls it.

lorenzDerivative(sigma, rho, beta, t, s) ==
  LET x == s[1]
      y == s[2]
      z == s[3]
  IN  << Mul(sigma, Sub(y, x)),
         Sub(Mul(x, Sub(rho, z)), y),
         Sub(Mul(x, y), Mul(beta, z)) >>

\* slip: a forcing term of t added to the oscillator
vanDerPolDerivativeForced(mu, t, s) ==
  LET x == s[1]
      y == s[2]
  IN  << y,
         Add(Sub(Mul(Mul(mu, Sub(1, Mul(x, x))), y), x), t) >>

vanDerPolDerivative(mu, t, s) ==
  LET x == s[1]
      y == s[2]
  IN  << y,
         Sub(Mul(Mul(mu, Sub(1, Mul(x, x))), y), x) >>

\* slip: omega0 taken once instead of squared
dampedPendulumDerivativeUnsquared(gamma, omega0, t, s) ==
  LET theta == s[1]
      omega == s[2]
  IN  << omega,
         Sub(Mul(Neg(gamma), omega), Mul(omega0, MathSin(theta))) >>

dampedPendulumDerivative(gamma, omega0, t, s) ==
  LET theta == s[1]
      omega == s[2]
  IN  << omega,
         Sub(Mul(Neg(gamma), omega), Mul(Mul(omega0, omega0), MathSin(theta))) >>

\* slip: b + z * x - c, the parentheses around x - c lost
rosslerDerivativeUngrouped(a, b, c, t, s) ==
  LET x == s[1]
      y == s[2]
      z == s[3]
  IN  << Sub(Neg(y), z),
         Add(x, Mul(a, y)),
         Sub(Add(b, Mul(z, x)), c) >>

rosslerDerivative(a, b, c, t, s) ==
  LET x == s[1]
      y == s[2]
      z == s[3]
  IN  << Sub(Neg(y), z),
         Add(x, Mul(a, y)),
         Add(b, Mul(z, Sub(x, c))) >>

\* a DerivativeFn2D called
Apply2D(g, t, s) ==
  CASE g.kind = "vdp"      -> vanDerPolDerivative(g.mu, t, s)
    [] g.kind = "pendulum" -> dampedPendulumDerivative(g.gamma, g.omega0, t, s)

\* the DerivativeFn3D (t, [a, b, c]) => [g(t, [a, b])[0], g(t, [a, b])[1], 0]
Lifted(g, t, s) ==
  LET d == Apply2D(g, t, << s[1], s[2] >>)
  IN  << d[1], d[2], 0 >>

Apply(g, t, s) ==
  CASE g.kind = "lift"     -> Lifted(g.of, t, s)
    [] g.kind = "lorenz"   -> lorenzDerivative(g.sigma, g.rho, g.beta, t, s)
    [] g.kind = "vdp"      -> vanDerPolDerivative(g.mu, t, s)
    [] g.kind = "pendulum" -> dampedPendulumDerivative(g.gamma, g.omega0, t, s)
    [] g.kind = "rossler"  -> rosslerDerivative(g.a, g.b, g.c, t, s)

\* ---------------------------------------------------------------- inputs
ParamVals == {1, 2}
InitVals  == {0 - 1, 0, 3, MaxFinite}
DtVals    == {0 - 1, 0, 2}
StepVals  == (0 - 1)..MaxSteps

LorenzInputs ==
  [sigma : ParamVals, rho : ParamVals, beta : ParamVals,
   x0 : InitVals, y0 : InitVals, z0 : InitVals, dt : DtVals, steps : StepVals]
VanDerPolInputs ==
  [mu : ParamVals, x0 : InitVals, y0 : InitVals, dt : DtVals, steps : StepVals]
DampedPendulumInputs ==
  [gamma : ParamVals, omega0 : ParamVals, theta0 : InitVals, omegaInit : InitVals,
   dt : DtVals, steps : StepVals]
RosslerInputs ==
  [a : ParamVals, b : ParamVals, c : ParamVals,
   x0 : InitVals, y0 : InitVals, z0 : InitVals, dt : DtVals, steps : StepVals]

\* the inputs of a caller that repeats calls and compares the results
ReplayParams == {2}
ReplayInit   == {0 - 1, 3}
ReplayDt     == {0 - 1, 2}
ReplaySteps  == {0, MaxSteps}

LorenzReplay ==
  [sigma : ReplayParams, rho : ReplayParams, beta : ReplayParams,
   x0 : ReplayInit, y0 : ReplayInit, z0 : ReplayInit, dt : ReplayDt, steps : ReplaySteps]
VanDerPolReplay ==
  [mu : ReplayParams, x0 : ReplayInit, y0 : ReplayInit, dt : ReplayDt, steps : ReplaySteps]
DampedPendulumReplay ==
  [gamma : ReplayParams, omega0 : ReplayParams, theta0 : ReplayInit, omegaInit : ReplayInit,
   dt : ReplayDt, steps : ReplaySteps]
RosslerReplay ==
  [a : ReplayParams, b : ReplayParams, c : ReplayParams,
   x0 : ReplayInit, y0 : ReplayInit, z0 : ReplayInit, dt : ReplayDt, steps : ReplaySteps]

\* ----------------------------------------------------------------- state
VARIABLES
  pc,       \* position: "idle", "loop", "k2", "k3", "k4", "ret", "assign", "done"
  fn,       \* the entry point running or last run
  params,   \* its argument
  f,        \* the derivative closure it built
  state,    \* let state
  t,        \* let t
  i,        \* let i of the for loop
  points,   \* const points: the index in heap of the array it allocated
  heap,     \* the arrays that exist, by allocation order
  k1, k2, k3, k4,   \* the stepper's constants
  evals,    \* the (time, state) arguments f was called with in this step
  ret,      \* the stepper's return value
  held,     \* the caller's record of the first call it kept: entry, argument,
            \* the array it was given and the coordinates it read from it
  ncalls,   \* calls the caller has made since it started keeping
  wasmModule,   \* let wasmModule of the wasm wrapper: "null" or "module"
  initPromise,  \* let initPromise: "null", or the promise's progress and outcome
  waiting,      \* the wrapper calls suspended at await initWasm(), oldest first
  inits,        \* invocations of wasm.default(), the module's initializer
  instance,     \* let wasm of the glue: 0 (undefined) or the invocation that set it
  received,     \* the instances behind the modules that resumed callers were given
  errors,       \* the rejections that callers resumed with and threw
  memory,       \* the module's linear memory, as the cells of a Float64Array
  live,         \* the regions the core has allocated and not released
  glue,         \* the running call of a glue export: its position and locals
  kept,         \* the array a caller of the glue was returned first, and what it read
  gcalls,       \* calls of the glue that have returned since
  buf,      \* data: the Float64Array handed to toVector3Array / toVector3Array2D
  idx,      \* let i of their for loops
  stepCalls,    \* calls of rk4Step2D / rk4Step3D the running solve call has made
  fCalls,       \* calls of f made inside them
  view,     \* the component that is mounted: "none", "FullView", "VisualizationCard"
  equation, \* its equation prop: the preset's id and the argument made from it
  shown,    \* its points state: the index in heap of the array, 0 for the initial []
  animatedIndex,    \* its animatedIndex state
  isPlaying,        \* FullView's isPlaying state
  isLoading,        \* its isLoading state
  callbacks,        \* the animate callbacks requested and neither run nor cancelled, each
                    \* with the points.length its closure reads and whether
                    \* animationRef.current is its id
  cleanup,          \* the last run of the animation effect returned a cleanup function
  effectDue,        \* the animation effect's dependencies changed and it has not run yet
  logged,   \* console.error calls of the mounted component
  marker    \* the index the last useFrame placed the marker at, -1 before any

glueVars == << memory, live, glue, kept, gcalls >>

wasmVars == << wasmModule, initPromise, waiting, inits, instance, received, errors, glueVars >>

\* the variables of the code around the engine and the loader
\* the state of the mounted component
pageVars == << view, equation, shown, animatedIndex, isPlaying, isLoading, callbacks, cleanup,
               effectDue,
               logged, marker >>

hostVars == << buf, idx, pageVars >>

\* the call counts of the running solve call
counts == << stepCalls, fCalls >>

vars == << pc, fn, params, f, state, t, i, points, heap, k1, k2, k3, k4, evals, ret,
           held, ncalls, wasmModule, initPromise, waiting, inits, instance, received, errors,
           glueVars,
           buf, idx, stepCalls, fCalls, pageVars >>

None == << >>

Vector3(x, y, z) == << x, y, z >>

Init ==
  /\ pc = "idle"
  /\ fn = "none"
  /\ params = None
  /\ f = None
  /\ state = None
  /\ t = 0
  /\ i = 0
  /\ points = 0
  /\ heap = << >>
  /\ k1 = None /\ k2 = None /\ k3 = None /\ k4 = None
  /\ evals = << >>
  /\ ret = None
  /\ held = None
  /\ ncalls = 0
  /\ wasmModule = "null"
  /\ initPromise = "null"
  /\ waiting = << >>
  /\ inits = 0
  /\ instance = 0
  /\ received = {}
  /\ errors = {}
  /\ memory = [c \in 1..MemCells |-> 0]
  /\ live = {}
  /\ glue = [at |-> "idle", entry |-> "none", arg |-> None, ptr |-> 0, len |-> 0,
             v1 |-> None, frees |-> 0]
  /\ kept = None
  /\ gcalls = 0
  /\ buf = << >>
  /\ idx = 0
  /\ stepCalls = 0
  /\ fCalls = 0
  /\ view = "none"
  /\ equation = None
  /\ shown = 0
  /\ animatedIndex = 0
  /\ isPlaying = TRUE
  /\ isLoading = TRUE
  /\ callbacks = << >>
  /\ cleanup = FALSE
  /\ effectDue = FALSE
  /\ logged = 0
  /\ marker = 0 - 1

Is3D == fn \in {"solveLorenz", "solveRossler", "rk4Step3D"}
Is2D == fn \in {"solveVanDerPol", "solveDampedPendulum", "rk4Step2D"}

\* slip: the loops push onto the array of the first call
PushShared(v) == [heap EXCEPT ![1] = Append(@, v)]

\* push onto the array the running call allocated
Push(v) == [heap EXCEPT ![points] = Append(@, v)]

\* slip: points is one array of the module, shared by all calls
EnterShared(name, arg, closure, s0, p0) ==
  /\ pc' = "loop"
  /\ fn' = name
  /\ params' = arg
  /\ f' = closure
  /\ state' = s0
  /\ t' = 0
  /\ i' = 0
  /\ points' = 1
  /\ heap' = IF heap = << >> THEN << << p0 >> >> ELSE [heap EXCEPT ![1] = Append(@, p0)]
  /\ ncalls' = IF held = None THEN 0 ELSE ncalls + 1
  /\ UNCHANGED << k1, k2, k3, k4, evals, ret, held >>
  /\ UNCHANGED wasmVars
  /\ UNCHANGED hostVars
  /\ stepCalls' = 0 /\ fCalls' = 0

\* slip: a validation layer that refuses a step size that is not positive
EnterValidated(name, arg, closure, s0, p0) ==
  /\ pc' = IF arg.dt <= 0 THEN "threw" ELSE "loop"
  /\ fn' = name
  /\ params' = arg
  /\ f' = closure
  /\ state' = s0
  /\ t' = 0
  /\ i' = 0
  /\ points' = Len(heap) + 1
  /\ heap' = Append(heap, << p0 >>)
  /\ ncalls' = IF held = None THEN 0 ELSE ncalls + 1
  /\ UNCHANGED << k1, k2, k3, k4, evals, ret, held >>
  /\ UNCHANGED wasmVars
  /\ UNCHANGED hostVars
  /\ stepCalls' = 0 /\ fCalls' = 0

\* the part of every entry up to the first push
Enter(name, arg, closure, s0, p0) ==
  /\ pc' = "loop"
  /\ fn' = name
  /\ params' = arg
  /\ f' = closure
  /\ state' = s0
  /\ t' = 0
  /\ i' = 0
  /\ points' = Len(heap) + 1
  /\ heap' = Append(heap, << p0 >>)
  /\ ncalls' = IF held = None THEN 0 ELSE ncalls + 1
  /\ UNCHANGED << k1, k2, k3, k4, evals, ret, held >>
  /\ UNCHANGED wasmVars
  /\ UNCHANGED hostVars
  /\ stepCalls' = 0 /\ fCalls' = 0

solveLorenz(arg) ==
       Enter("solveLorenz", arg,
          [kind |-> "lorenz", sigma |-> arg.sigma, rho |-> arg.rho, beta |-> arg.beta],
          << arg.x0, arg.y0, arg.z0 >>,
          Vector3(arg.x0, arg.y0, arg.z0))

solveVanDerPol(arg) ==
       Enter("solveVanDerPol", arg,
          [kind |-> "vdp", mu |-> arg.mu],
          << arg.x0, arg.y0 >>,
          Vector3(arg.x0, arg.y0, 0))

\* slip: the first point pushed with its coordinates exchanged
solveDampedPendulumSwapped(arg) ==
       Enter("solveDampedPendulum", arg,
          [kind |-> "pendulum", gamma |-> arg.gamma, omega0 |-> arg.omega0],
          << arg.theta0, arg.omegaInit >>,
          Vector3(arg.omegaInit, arg.theta0, 0))

solveDampedPendulum(arg) ==
       Enter("solveDampedPendulum", arg,
          [kind |-> "pendulum", gamma |-> arg.gamma, omega0 |-> arg.omega0],
          << arg.theta0, arg.omegaInit >>,
          Vector3(arg.theta0, arg.omegaInit, 0))

solveRossler(arg) ==
       Enter("solveRossler", arg,
          [kind |-> "rossler", a |-> arg.a, b |-> arg.b, c |-> arg.c],
          << arg.x0, arg.y0, arg.z0 >>,
          Vector3(arg.x0, arg.y0, arg.z0))

\* ------------------------------------------------------------ the stepper
\* rk4Step2D and rk4Step3D run in the frame of the loop that called them:
\* their parameters f, t, y, dt are the caller's f, t, state, params.dt.
\* Each call of f is one action, which records the arguments it passed.

Frame(pos) == /\ pc' = pos
              /\ UNCHANGED << fn, params, f, state, t, i, points, heap, held, ncalls >>
              /\ UNCHANGED wasmVars
              /\ UNCHANGED hostVars

rk4Step3D_k1 ==
  /\ pc = "loop" /\ Is3D /\ i < params.steps
  /\ k1' = Apply(f, t, state)
  /\ evals' = << << t, state >> >>
  /\ Frame("k2")
  /\ UNCHANGED << k2, k3, k4, ret >>
  /\ stepCalls' = stepCalls + 1 /\ fCalls' = fCalls + 1

\* slip: y is advanced in place, y[n] += k1[n] * dt / 2
rk4Step3D_k2_in_place ==
  /\ pc = "k2" /\ Is3D
  /\ LET dt == params.dt
         y  == state
         at == Add(t, Div(dt, 2))
         ay == << Add(y[1], Div(Mul(k1[1], dt), 2)),
                  Add(y[2], Div(Mul(k1[2], dt), 2)),
                  Add(y[3], Div(Mul(k1[3], dt), 2)) >>
     IN  /\ k2' = Apply(f, at, ay)
         /\ evals' = Append(evals, << at, ay >>)
         /\ state' = ay
  /\ pc' = "k3"
  /\ UNCHANGED << fn, params, f, t, i, points, heap, held, ncalls >>
  /\ UNCHANGED wasmVars
  /\ UNCHANGED hostVars
  /\ UNCHANGED << k1, k3, k4, ret >>
  /\ fCalls' = fCalls + 1 /\ UNCHANGED stepCalls

rk4Step3D_k2 ==
  /\ pc = "k2" /\ Is3D
  /\ LET dt == params.dt
         y  == state
         at == Add(t, Div(dt, 2))
         ay == << Add(y[1], Div(Mul(k1[1], dt), 2)),
                  Add(y[2], Div(Mul(k1[2], dt), 2)),
                  Add(y[3], Div(Mul(k1[3], dt), 2)) >>
     IN  /\ k2' = Apply(f, at, ay)
         /\ evals' = Append(evals, << at, ay >>)
  /\ Frame("k3")
  /\ UNCHANGED << k1, k3, k4, ret >>
  /\ fCalls' = fCalls + 1 /\ UNCHANGED stepCalls

\* slip: k3 evaluated at y + k1 * dt / 2
rk4Step3D_k3_from_k1 ==
  /\ pc = "k3" /\ Is3D
  /\ LET dt == params.dt
         y  == state
         at == Add(t, Div(dt, 2))
         ay == << Add(y[1], Div(Mul(k1[1], dt), 2)),
                  Add(y[2], Div(Mul(k1[2], dt), 2)),
                  Add(y[3], Div(Mul(k1[3], dt), 2)) >>
     IN  /\ k3' = Apply(f, at, ay)
         /\ evals' = Append(evals, << at, ay >>)
  /\ Frame("k4")
  /\ UNCHANGED << k1, k2, k4, ret >>
  /\ fCalls' = fCalls + 1 /\ UNCHANGED stepCalls

rk4Step3D_k3 ==
  /\ pc = "k3" /\ Is3D
  /\ LET dt == params.dt
         y  == state
         at == Add(t, Div(dt, 2))
         ay == << Add(y[1], Div(Mul(k2[1], dt), 2)),
                  Add(y[2], Div(Mul(k2[2], dt), 2)),
                  Add(y[3], Div(Mul(k2[3], dt), 2)) >>
     IN  /\ k3' = Apply(f, at, ay)
         /\ evals' = Append(evals, << at, ay >>)
  /\ Frame("k4")
  /\ UNCHANGED << k1, k2, k4, ret >>
  /\ fCalls' = fCalls + 1 /\ UNCHANGED stepCalls

rk4Step3D_k4 ==
  /\ pc = "k4" /\ Is3D
  /\ LET dt == params.dt
         y  == state
         at == Add(t, dt)
         ay == << Add(y[1], Mul(k3[1], dt)),
                  Add(y[2], Mul(k3[2], dt)),
                  Add(y[3], Mul(k3[3], dt)) >>
     IN  /\ k4' = Apply(f, at, ay)
         /\ evals' = Append(evals, << at, ay >>)
  /\ Frame("ret")
  /\ UNCHANGED << k1, k2, k3, ret >>
  /\ fCalls' = fCalls + 1 /\ UNCHANGED stepCalls

\* slip: the weighted sum is not scaled by dt
WeightedUnscaled(a1, a2, a3, a4, dt) == Div(Add(Add(Add(a1, Mul(2, a2)), Mul(2, a3)), a4), 6)

\* (k1 + 2 * k2 + 2 * k3 + k4) * dt / 6, left to right
Weighted(a1, a2, a3, a4, dt) ==
  Div(Mul(Add(Add(Add(a1, Mul(2, a2)), Mul(2, a3)), a4), dt), 6)

rk4Step3D_return ==
  /\ pc = "ret" /\ Is3D
  /\ LET dt == params.dt
         y  == state
     IN  ret' = << Add(y[1], Weighted(k1[1], k2[1], k3[1], k4[1], dt)),
                   Add(y[2], Weighted(k1[2], k2[2], k3[2], k4[2], dt)),
                   Add(y[3], Weighted(k1[3], k2[3], k3[3], k4[3], dt)) >>
  /\ Frame("assign")
  /\ UNCHANGED << k1, k2, k3, k4, evals >>
  /\ UNCHANGED counts

rk4Step2D_k1 ==
  /\ pc = "loop" /\ Is2D /\ i < params.steps
  /\ k1' = Apply(f, t, state)
  /\ evals' = << << t, state >> >>
  /\ Frame("k2")
  /\ UNCHANGED << k2, k3, k4, ret >>
  /\ stepCalls' = stepCalls + 1 /\ fCalls' = fCalls + 1

rk4Step2D_k2 ==
  /\ pc = "k2" /\ Is2D
  /\ LET dt == params.dt
         y  == state
         at == Add(t, Div(dt, 2))
         ay == << Add(y[1], Div(Mul(k1[1], dt), 2)),
                  Add(y[2], Div(Mul(k1[2], dt), 2)) >>
     IN  /\ k2' = Apply(f, at, ay)
         /\ evals' = Append(evals, << at, ay >>)
  /\ Frame("k3")
  /\ UNCHANGED << k1, k3, k4, ret >>
  /\ fCalls' = fCalls + 1 /\ UNCHANGED stepCalls

rk4Step2D_k3 ==
  /\ pc = "k3" /\ Is2D
  /\ LET dt == params.dt
         y  == state
         at == Add(t, Div(dt, 2))
         ay == << Add(y[1], Div(Mul(k2[1], dt), 2)),
                  Add(y[2], Div(Mul(k2[2], dt), 2)) >>
     IN  /\ k3' = Apply(f, at, ay)
         /\ evals' = Append(evals, << at, ay >>)
  /\ Frame("k4")
  /\ UNCHANGED << k1, k2, k4, ret >>
  /\ fCalls' = fCalls + 1 /\ UNCHANGED stepCalls

\* slip: the half step of k2 and k3 copied into k4
rk4Step2D_k4_half ==
  /\ pc = "k4" /\ Is2D
  /\ LET dt == params.dt
         y  == state
         at == Add(t, dt)
         ay == << Add(y[1], Div(Mul(k3[1], dt), 2)),
                  Add(y[2], Div(Mul(k3[2], dt), 2)) >>
     IN  /\ k4' = Apply(f, at, ay)
         /\ evals' = Append(evals, << at, ay >>)
  /\ Frame("ret")
  /\ UNCHANGED << k1, k2, k3, ret >>
  /\ fCalls' = fCalls + 1 /\ UNCHANGED stepCalls

rk4Step2D_k4 ==
  /\ pc = "k4" /\ Is2D
  /\ LET dt == params.dt
         y  == state
         at == Add(t, dt)
         ay == << Add(y[1], Mul(k3[1], dt)),
                  Add(y[2], Mul(k3[2], dt)) >>
     IN  /\ k4' = Apply(f, at, ay)
         /\ evals' = Append(evals, << at, ay >>)
  /\ Frame("ret")
  /\ UNCHANGED << k1, k2, k3, ret >>
  /\ fCalls' = fCalls + 1 /\ UNCHANGED stepCalls

rk4Step2D_return ==
  /\ pc = "ret" /\ Is2D
  /\ LET dt == params.dt
         y  == state
     IN  ret' = << Add(y[1], Weighted(k1[1], k2[1], k3[1], k4[1], dt)),
                   Add(y[2], Weighted(k1[2], k2[2], k3[2], k4[2], dt)) >>
  /\ Frame("assign")
  /\ UNCHANGED << k1, k2, k3, k4, evals >>
  /\ UNCHANGED counts

\* --------------------------------------------------------- the four loops
\* state = rk4Step(f, t, state, dt); t += dt; points.push(...); i++

\* slip: the three-dimensional push copied into the two-dimensional loops
EmitCopied(s) == IF Is3D THEN Vector3(s[1], s[2], s[3]) ELSE Vector3(s[1], s[2], Undefined)

\* the point a loop pushes for the state s
Emit(s) == IF Is3D THEN Vector3(s[1], s[2], s[3]) ELSE Vector3(s[1], s[2], 0)

\* slip: the point is pushed before the state is advanced
LoopBodyStale ==
  /\ pc = "assign"
  /\ state' = ret
  /\ t' = Add(t, params.dt)
  /\ heap' = Push(Emit(state))
  /\ i' = i + 1
  /\ pc' = "loop"
  /\ k1' = None /\ k2' = None /\ k3' = None /\ k4' = None
  /\ evals' = << >>
  /\ ret' = None
  /\ UNCHANGED << fn, params, f, points, held, ncalls >>
  /\ UNCHANGED wasmVars
  /\ UNCHANGED hostVars
  /\ UNCHANGED counts

LoopBody ==
  /\ pc = "assign"
  /\ state' = ret
  /\ t' = Add(t, params.dt)
  /\ heap' = Push(Emit(ret))
  /\ i' = i + 1
  /\ pc' = "loop"
  /\ k1' = None /\ k2' = None /\ k3' = None /\ k4' = None
  /\ evals' = << >>
  /\ ret' = None
  /\ UNCHANGED << fn, params, f, points, held, ncalls >>
  /\ UNCHANGED wasmVars
  /\ UNCHANGED hostVars
  /\ UNCHANGED counts

\* slip: the loop bound off by one, i < steps - 1
ReturnEarly ==
  /\ pc = "loop" /\ ~(i < params.steps - 1)
  /\ pc' = "done"
  /\ UNCHANGED << fn, params, f, state, t, i, points, heap, k1, k2, k3, k4, evals, ret,
                  held, ncalls >>
  /\ UNCHANGED wasmVars
  /\ UNCHANGED hostVars
  /\ UNCHANGED counts

\* slip: the loop gives up once the state is not finite
ReturnOnNonFinite ==
  /\ pc = "loop" /\ (~(i < params.steps) \/ \E n \in DOMAIN state : ~isFinite(state[n]))
  /\ pc' = "done"
  /\ UNCHANGED << fn, params, f, state, t, i, points, heap, k1, k2, k3, k4, evals, ret,
                  held, ncalls >>
  /\ UNCHANGED wasmVars
  /\ UNCHANGED hostVars
  /\ UNCHANGED counts

\* slip: a negative step count answered with an empty array
ReturnEmpty ==
  /\ pc = "loop" /\ ~(i < params.steps)
  /\ pc' = "done"
  /\ heap' = IF params.steps < 0 THEN [heap EXCEPT ![points] = << >>] ELSE heap
  /\ UNCHANGED << fn, params, f, state, t, i, points, k1, k2, k3, k4, evals, ret,
                  held, ncalls >>
  /\ UNCHANGED wasmVars
  /\ UNCHANGED hostVars
  /\ UNCHANGED counts

\* return points
Return ==
  /\ pc = "loop" /\ ~(i < params.steps)
  /\ pc' = "done"
  /\ UNCHANGED << fn, params, f, state, t, i, points, heap, k1, k2, k3, k4, evals, ret,
                  held, ncalls >>
  /\ UNCHANGED wasmVars
  /\ UNCHANGED hostVars
  /\ UNCHANGED counts

\* the frame of a call that has returned is gone
FrameGone ==
  /\ pc' = "idle"
  /\ fn' = "none"
  /\ params' = None
  /\ f' = None
  /\ state' = None
  /\ t' = 0
  /\ i' = 0
  /\ points' = 0
  /\ UNCHANGED << k1, k2, k3, k4, evals, ret >>
  /\ UNCHANGED wasmVars
  /\ UNCHANGED hostVars
  /\ stepCalls' = 0 /\ fCalls' = 0

\* the caller lets go of the array it was given
Discard ==
  /\ pc = "done"
  /\ FrameGone
  /\ heap' = << >>
  /\ UNCHANGED << held, ncalls >>

\* the caller keeps the array of its first call and lets go of the later ones
Hold ==
  /\ pc = "done"
  /\ FrameGone
  /\ IF held = None
       THEN /\ held' = [entry |-> fn, arg |-> params, array |-> points, seen |-> heap[points]]
            /\ ncalls' = 1
            /\ heap' = heap
       ELSE /\ heap' = SubSeq(heap, 1, held.array)
            /\ UNCHANGED << held, ncalls >>

CallLorenz         == pc = "idle" /\ \E arg \in LorenzInputs : solveLorenz(arg)
CallVanDerPol      == pc = "idle" /\ \E arg \in VanDerPolInputs : solveVanDerPol(arg)
CallDampedPendulum == pc = "idle" /\ \E arg \in DampedPendulumInputs : solveDampedPendulum(arg)
CallRossler        == pc = "idle" /\ \E arg \in RosslerInputs : solveRossler(arg)

Again == pc = "idle" /\ ncalls < MaxCalls

ReplayLorenz         == Again /\ \E arg \in LorenzReplay : solveLorenz(arg)
ReplayVanDerPol      == Again /\ \E arg \in VanDerPolReplay : solveVanDerPol(arg)
ReplayDampedPendulum == Again /\ \E arg \in DampedPendulumReplay : solveDampedPendulum(arg)
ReplayRossler        == Again /\ \E arg \in RosslerReplay : solveRossler(arg)

rk4Step ==
  \/ rk4Step3D_k1
  \/ rk4Step3D_k2
  \/ rk4Step3D_k3
  \/ rk4Step3D_k4
  \/ rk4Step3D_return
  \/ rk4Step2D_k1
  \/ rk4Step2D_k2
  \/ rk4Step2D_k3
  \/ rk4Step2D_k4
  \/ rk4Step2D_return

\* single calls over the full input sets
Next ==
  \/ CallLorenz
  \/ CallVanDerPol
  \/ CallDampedPendulum
  \/ CallRossler
  \/ rk4Step
  \/ LoopBody
  \/ Return
  \/ Discard

Spec == Init /\ [][Next]_vars


\* a caller that keeps the first result and calls again
NextPair ==
  \/ ReplayLorenz
  \/ ReplayVanDerPol
  \/ ReplayDampedPendulum
  \/ ReplayRossler
  \/ rk4Step
  \/ LoopBody
  \/ Return
  \/ Hold

SpecPair == Init /\ [][NextPair]_vars

\* single calls with the arguments of the components
NextRun ==
  \/ ReplayLorenz
  \/ ReplayVanDerPol
  \/ ReplayDampedPendulum
  \/ ReplayRossler
  \/ rk4Step
  \/ LoopBody
  \/ Return
  \/ Discard

\* a call that has started runs on: the engine is synchronous and has no
\* suspension point, so its next statement is always executed
SpecRun == Init /\ [][NextRun]_vars /\ WF_vars(rk4Step \/ LoopBody \/ Return)

\* ------------------------------------------------------ the compiled core
\* The wrapper's solve functions run the compiled core (rust/pkg), which is
\* not among the sources.  Its exports are modelled from the specification:
\* the step of section 4.1 applied steps times from the initial state
\* (section 2), the states flattened row by row as in section 6.

\* y + k * dt / d and y + k * dt, component by component
AxpyDiv(y, k, dt, d) == [n \in DOMAIN y |-> Add(y[n], Div(Mul(k[n], dt), d))]
Axpy(y, k, dt)       == [n \in DOMAIN y |-> Add(y[n], Mul(k[n], dt))]

\* k1 + 2 * k2 + 2 * k3 + k4, component by component
KSum(c1, c2, c3, c4) ==
  [n \in DOMAIN c1 |-> Add(Add(Add(c1[n], Mul(2, c2[n])), Mul(2, c3[n])), c4[n])]

\* one integrator step as a function of (g, tt, y, dt)
IntegratorStep(g, tt, y, dt) ==
  LET c1 == Apply(g, tt, y)
      c2 == Apply(g, Add(tt, Div(dt, 2)), AxpyDiv(y, c1, dt, 2))
      c3 == Apply(g, Add(tt, Div(dt, 2)), AxpyDiv(y, c2, dt, 2))
      c4 == Apply(g, Add(tt, dt), Axpy(y, c3, dt))
  IN  AxpyDiv(y, KSum(c1, c2, c3, c4), dt, 6)

\* the states of a trajectory of n steps from y at time tt
RECURSIVE CoreTrajectory(_, _, _, _, _)
CoreTrajectory(g, y, tt, dt, n) ==
  IF n <= 0 THEN << y >>
  ELSE << y >> \o CoreTrajectory(g, IntegratorStep(g, tt, y, dt), Add(tt, dt), dt, n - 1)

RECURSIVE Flatten(_)
Flatten(tr) ==
  IF tr = << >> THEN << >>
  ELSE [n \in 1..Len(Head(tr)) |-> Head(tr)[n]] \o Flatten(Tail(tr))

wasm_solve_lorenz(sigma, rho, beta, x0, y0, z0, dt, steps) ==
  Flatten(CoreTrajectory([kind |-> "lorenz", sigma |-> sigma, rho |-> rho, beta |-> beta],
                         << x0, y0, z0 >>, 0, dt, steps))
wasm_solve_van_der_pol(mu, x0, y0, dt, steps) ==
  Flatten(CoreTrajectory([kind |-> "vdp", mu |-> mu], << x0, y0 >>, 0, dt, steps))
wasm_solve_damped_pendulum(gamma, omega0, theta0, omega_init, dt, steps) ==
  Flatten(CoreTrajectory([kind |-> "pendulum", gamma |-> gamma, omega0 |-> omega0],
                         << theta0, omega_init >>, 0, dt, steps))
wasm_solve_rossler(a, b, c, x0, y0, z0, dt, steps) ==
  Flatten(CoreTrajectory([kind |-> "rossler", a |-> a, b |-> b, c |-> c],
                         << x0, y0, z0 >>, 0, dt, steps))

\* ------------------------------------------------- the WebAssembly wrapper
\* the glue: the export's result copied out of the module's memory
solve_lorenz(sigma, rho, beta, x0, y0, z0, dt, steps) ==
  LET v1 == wasm_solve_lorenz(sigma, rho, beta, x0, y0, z0, dt, steps)
  IN  v1
solve_van_der_pol(mu, x0, y0, dt, steps) ==
  LET v1 == wasm_solve_van_der_pol(mu, x0, y0, dt, steps)
  IN  v1
solve_damped_pendulum(gamma, omega0, theta0, omega_init, dt, steps) ==
  LET v1 == wasm_solve_damped_pendulum(gamma, omega0, theta0, omega_init, dt, steps)
  IN  v1
solve_rossler(a, b, c, x0, y0, z0, dt, steps) ==
  LET v1 == wasm_solve_rossler(a, b, c, x0, y0, z0, dt, steps)
  IN  v1

\* data[k], k counted from 0
At(data, k) == IF k < Len(data) THEN data[k + 1] ELSE Undefined

\* for (let i = 0; i < data.length; i += dim) points.push(...)
toVector3Array(data, dim) ==
  [j \in 1..((Len(data) + dim - 1) \div dim) |->
     Vector3(At(data, (j - 1) * dim), At(data, (j - 1) * dim + 1), At(data, (j - 1) * dim + 2))]

toVector3Array2D(data) ==
  [j \in 1..((Len(data) + 1) \div 2) |->
     Vector3(At(data, (j - 1) * 2), At(data, (j - 1) * 2 + 1), 0)]

\* the inputs of the components: one preset per system
LorenzPresets ==
  {[sigma |-> 2, rho |-> 2, beta |-> 2, x0 |-> 3, y0 |-> 0 - 1, z0 |-> 3,
    dt |-> 0 - 1, steps |-> MaxSteps]}
VanDerPolPresets ==
  {[mu |-> 2, x0 |-> 3, y0 |-> 0 - 1, dt |-> 2, steps |-> MaxSteps]}
DampedPendulumPresets ==
  {[gamma |-> 2, omega0 |-> 2, theta0 |-> 3, omegaInit |-> 0 - 1, dt |-> 0 - 1,
    steps |-> MaxSteps]}
RosslerPresets ==
  {[a |-> 2, b |-> 2, c |-> 2, x0 |-> 3, y0 |-> 0 - 1, z0 |-> 3,
    dt |-> 2, steps |-> MaxSteps]}

\* initWasm() without its test of initPromise
initWasmUnshared ==
  IF wasmModule # "null"
    THEN UNCHANGED << wasmModule, initPromise >>
    ELSE initPromise' = "importing" /\ UNCHANGED wasmModule

\* initWasm(): the module if there is one, else the promise if there is
\* one, else a new promise whose body starts the import
initWasm ==
  IF wasmModule # "null" \/ initPromise # "null"
    THEN UNCHANGED << wasmModule, initPromise >>
    ELSE initPromise' = "importing" /\ UNCHANGED wasmModule

\* a wrapper called: it runs up to await initWasm()
Suspend(name, arg) ==
  /\ initWasm
  /\ waiting' = Append(waiting, [entry |-> name, arg |-> arg])
  /\ UNCHANGED << inits, instance, received, errors >>
  /\ ncalls' = IF held = None THEN 0 ELSE ncalls + 1
  /\ UNCHANGED << pc, fn, params, f, state, t, i, points, heap, k1, k2, k3, k4, evals, ret,
                  held >>
  /\ UNCHANGED hostVars
  /\ UNCHANGED counts
  /\ UNCHANGED glueVars

\* a caller may call a wrapper while other calls are suspended
Another == pc = "idle" /\ ncalls < MaxCalls /\ Len(waiting) < MaxWaiting

wasmSolveLorenz ==
  Another /\ \E arg \in LorenzPresets : Suspend("wasm.solveLorenz", arg)
wasmSolveVanDerPol ==
  Another /\ \E arg \in VanDerPolPresets : Suspend("wasm.solveVanDerPol", arg)
wasmSolveDampedPendulum ==
  Another /\ \E arg \in DampedPendulumPresets : Suspend("wasm.solveDampedPendulum", arg)
wasmSolveRossler ==
  Another /\ \E arg \in RosslerPresets : Suspend("wasm.solveRossler", arg)

\* the body of the promise: await import(...), await wasm.default(), wasmModule = wasm
InitStep(to, module) ==
  /\ initPromise' = to
  /\ wasmModule' = module
  /\ UNCHANGED << pc, fn, params, f, state, t, i, points, heap, k1, k2, k3, k4, evals, ret,
                  held, ncalls, waiting >>
  /\ UNCHANGED hostVars
  /\ UNCHANGED counts
  /\ UNCHANGED glueVars

\* the promise has failed, in the import or in the initializer
Rejected == initPromise \in {"import rejected", "init rejected"}

\* the import is there: wasm.default() is called and runs up to its await
ImportFulfilled ==
  /\ pc = "idle" /\ initPromise = "importing" /\ InitStep("initializing", wasmModule)
  /\ inits' = inits + 1
  /\ UNCHANGED << instance, received, errors >>
ImportRejected ==
  /\ pc = "idle" /\ initPromise = "importing" /\ InitStep("import rejected", wasmModule)
  /\ UNCHANGED << inits, instance, received, errors >>
\* __wbg_finalize_init sets the glue's wasm, then wasmModule = wasm
InitFulfilled ==
  /\ pc = "idle" /\ initPromise = "initializing" /\ InitStep("fulfilled", "module")
  /\ instance' = inits
  /\ UNCHANGED << inits, received, errors >>
\* as InitRejected, with initPromise cleared for a later call to start over
InitRejectedCleared ==
  /\ pc = "idle" /\ initPromise = "initializing" /\ InitStep("null", wasmModule)
  /\ UNCHANGED << inits, instance, received, errors >>
InitRejected ==
  /\ pc = "idle" /\ initPromise = "initializing" /\ InitStep("init rejected", wasmModule)
  /\ UNCHANGED << inits, instance, received, errors >>

\* what a wrapper returns once it has the module
Unflattened(c) ==
  LET a == c.arg
  IN  CASE c.entry = "wasm.solveLorenz" ->
             toVector3Array(solve_lorenz(a.sigma, a.rho, a.beta, a.x0, a.y0, a.z0, a.dt, a.steps), 3)
        [] c.entry = "wasm.solveVanDerPol" ->
             toVector3Array2D(solve_van_der_pol(a.mu, a.x0, a.y0, a.dt, a.steps))
        [] c.entry = "wasm.solveDampedPendulum" ->
             toVector3Array2D(solve_damped_pendulum(a.gamma, a.omega0, a.theta0, a.omegaInit,
                                                    a.dt, a.steps))
        [] c.entry = "wasm.solveRossler" ->
             toVector3Array(solve_rossler(a.a, a.b, a.c, a.x0, a.y0, a.z0, a.dt, a.steps), 3)

\* the oldest suspended wrapper resumes with the module and returns its points
Resume ==
  /\ pc = "idle" /\ waiting # << >> /\ initPromise = "fulfilled"
  /\ LET c == Head(waiting)
     IN  /\ fn' = c.entry
         /\ params' = c.arg
         /\ heap' = Append(heap, Unflattened(c))
  /\ points' = Len(heap) + 1
  /\ pc' = "done"
  /\ waiting' = Tail(waiting)
  /\ received' = received \cup {instance}
  /\ UNCHANGED errors
  /\ UNCHANGED << f, state, t, i, k1, k2, k3, k4, evals, ret, held, ncalls,
                  wasmModule, initPromise, inits, instance >>
  /\ UNCHANGED hostVars
  /\ UNCHANGED counts
  /\ UNCHANGED glueVars

\* the oldest suspended wrapper resumes with the rejection and throws
Reject ==
  /\ pc = "idle" /\ waiting # << >> /\ Rejected
  /\ waiting' = Tail(waiting)
  /\ UNCHANGED << pc, fn, params, f, state, t, i, points, heap, k1, k2, k3, k4, evals, ret,
                  held, ncalls, wasmModule, initPromise, inits, instance, received >>
  /\ errors' = errors \cup {initPromise}
  /\ UNCHANGED hostVars
  /\ UNCHANGED counts
  /\ UNCHANGED glueVars

PresetLorenz         == Again /\ \E arg \in LorenzPresets : solveLorenz(arg)
PresetVanDerPol      == Again /\ \E arg \in VanDerPolPresets : solveVanDerPol(arg)
PresetDampedPendulum == Again /\ \E arg \in DampedPendulumPresets : solveDampedPendulum(arg)
PresetRossler        == Again /\ \E arg \in RosslerPresets : solveRossler(arg)

\* components that call the entry points of both modules and keep a result
NextApp ==
  \/ PresetLorenz
  \/ PresetVanDerPol
  \/ PresetDampedPendulum
  \/ PresetRossler
  \/ rk4Step
  \/ LoopBody
  \/ Return
  \/ Hold
  \/ wasmSolveLorenz
  \/ wasmSolveVanDerPol
  \/ wasmSolveDampedPendulum
  \/ wasmSolveRossler
  \/ ImportFulfilled
  \/ ImportRejected
  \/ InitFulfilled
  \/ InitRejected
  \/ Resume
  \/ Reject

SpecApp == Init /\ [][NextApp]_vars

\* ------------------------------------------------- the unflattening loops
\* toVector3Array and toVector3Array2D step by step, on any Float64Array
\* of up to MaxLen numbers
BufferVals == {0 - 1, 0, 3}
Buffers == UNION {[1..n -> BufferVals] : n \in 0..MaxLen}

\* const points = []; let i = 0
Unflatten(name, d) ==
  /\ fn' = name
  /\ buf' = d
  /\ idx' = 0
  /\ heap' = Append(heap, << >>)
  /\ points' = Len(heap) + 1
  /\ pc' = "unflatten"
  /\ UNCHANGED << params, f, state, t, i, k1, k2, k3, k4, evals, ret, held, ncalls >>
  /\ UNCHANGED wasmVars
  /\ UNCHANGED counts
  /\ UNCHANGED pageVars

toVector3Array_enter   == pc = "idle" /\ \E d \in Buffers : Unflatten("toVector3Array", d)
toVector3Array2D_enter == pc = "idle" /\ \E d \in Buffers : Unflatten("toVector3Array2D", d)

\* one iteration: the push of v and i += dim
UnflattenPush(v, dim) ==
  /\ idx < Len(buf)
  /\ heap' = Push(v)
  /\ idx' = idx + dim
  /\ UNCHANGED << pc, fn, buf, points, params, f, state, t, i, k1, k2, k3, k4, evals, ret,
                  held, ncalls >>
  /\ UNCHANGED wasmVars
  /\ UNCHANGED counts
  /\ UNCHANGED pageVars

\* slip: i++ in place of i += dim
toVector3Array_push_by_one ==
  /\ pc = "unflatten" /\ fn = "toVector3Array"
  /\ UnflattenPush(Vector3(At(buf, idx), At(buf, idx + 1), At(buf, idx + 2)), 1)

toVector3Array_push ==
  /\ pc = "unflatten" /\ fn = "toVector3Array"
  /\ UnflattenPush(Vector3(At(buf, idx), At(buf, idx + 1), At(buf, idx + 2)), 3)

toVector3Array2D_push ==
  /\ pc = "unflatten" /\ fn = "toVector3Array2D"
  /\ UnflattenPush(Vector3(At(buf, idx), At(buf, idx + 1), 0), 2)

\* the loop ends and points is returned
UnflattenReturn ==
  /\ pc = "unflatten" /\ ~(idx < Len(buf))
  /\ pc' = "done"
  /\ UNCHANGED << fn, buf, idx, points, heap, params, f, state, t, i, k1, k2, k3, k4, evals,
                  ret, held, ncalls >>
  /\ UNCHANGED wasmVars
  /\ UNCHANGED counts
  /\ UNCHANGED pageVars

\* the caller lets go of the buffer and of the points
Drop ==
  /\ pc = "done" /\ fn \in {"toVector3Array", "toVector3Array2D"}
  /\ pc' = "idle"
  /\ fn' = "none"
  /\ buf' = << >>
  /\ idx' = 0
  /\ points' = 0
  /\ heap' = << >>
  /\ UNCHANGED << params, f, state, t, i, k1, k2, k3, k4, evals, ret, held, ncalls >>
  /\ UNCHANGED wasmVars
  /\ UNCHANGED counts
  /\ UNCHANGED pageVars

NextBuffer ==
  \/ toVector3Array_enter
  \/ toVector3Array2D_enter
  \/ toVector3Array_push
  \/ toVector3Array2D_push
  \/ UnflattenReturn
  \/ Drop

SpecBuffer == Init /\ [][NextBuffer]_vars

\* ------------------------------------------------ the steppers side by side
\* rk4Step2D called on a two-dimensional field g, then rk4Step3D called on
\* the field lifted from g, with the same t and dt and a state that extends
\* the first by a third component
Fields2D ==
  [kind : {"vdp"}, mu : ParamVals] \cup
  [kind : {"pendulum"}, gamma : ParamVals, omega0 : ParamVals]
LiftVals  == {0 - 1, 3, MaxFinite}
LiftThird == {0 - 1, 0, 3, MaxFinite}
LiftTimes == {0, 5}
LiftDt    == {0 - 1, 0, 2, PosInf}
LiftArgs  == [g : Fields2D, a : LiftVals, b : LiftVals, c : LiftThird, t : LiftTimes, dt : LiftDt]

\* rk4Step2D(g, t, [a, b], dt) is called
CallStep2D ==
  /\ pc = "idle" /\ held = None
  /\ \E arg \in LiftArgs :
       /\ fn' = "rk4Step2D"
       /\ params' = [g |-> arg.g, y |-> << arg.a, arg.b, arg.c >>, t |-> arg.t, dt |-> arg.dt,
                     steps |-> 1]
       /\ f' = arg.g
       /\ state' = << arg.a, arg.b >>
       /\ t' = arg.t
  /\ i' = 0
  /\ pc' = "loop"
  /\ stepCalls' = 0 /\ fCalls' = 0
  /\ UNCHANGED << points, heap, k1, k2, k3, k4, evals, ret, held, ncalls >>
  /\ UNCHANGED wasmVars
  /\ UNCHANGED hostVars

\* it has returned (p, q); rk4Step3D(lifted g, t, [a, b, c], dt) is called
CallStep3D ==
  /\ pc = "assign" /\ fn = "rk4Step2D"
  /\ held' = [entry |-> fn, arg |-> params, array |-> 0, seen |-> ret]
  /\ fn' = "rk4Step3D"
  /\ f' = [kind |-> "lift", of |-> params.g]
  /\ state' = params.y
  /\ t' = params.t
  /\ pc' = "loop"
  /\ k1' = None /\ k2' = None /\ k3' = None /\ k4' = None
  /\ evals' = << >>
  /\ ret' = None
  /\ stepCalls' = 0 /\ fCalls' = 0
  /\ UNCHANGED << params, i, points, heap, ncalls >>
  /\ UNCHANGED wasmVars
  /\ UNCHANGED hostVars

\* it has returned
Step3DReturned ==
  /\ pc = "assign" /\ fn = "rk4Step3D"
  /\ pc' = "done"
  /\ UNCHANGED << fn, params, f, state, t, i, points, heap, k1, k2, k3, k4, evals, ret,
                  held, ncalls >>
  /\ UNCHANGED wasmVars
  /\ UNCHANGED hostVars
  /\ UNCHANGED counts

\* both results are let go
Forget ==
  /\ pc = "done" /\ fn = "rk4Step3D"
  /\ pc' = "idle"
  /\ fn' = "none"
  /\ params' = None
  /\ f' = None
  /\ state' = None
  /\ t' = 0
  /\ k1' = None /\ k2' = None /\ k3' = None /\ k4' = None
  /\ evals' = << >>
  /\ ret' = None
  /\ held' = None
  /\ stepCalls' = 0 /\ fCalls' = 0
  /\ UNCHANGED << i, points, heap, ncalls >>
  /\ UNCHANGED wasmVars
  /\ UNCHANGED hostVars

NextLift ==
  \/ CallStep2D
  \/ CallStep3D
  \/ Step3DReturned
  \/ Forget
  \/ rk4Step

SpecLift == Init /\ [][NextLift]_vars

\* ------------------------------------------------------------ the components

\* The presets as the components pass them to the engine: one equation prop
\* per system and step count.
ViewSteps == {0, 9, 10, MaxViewSteps}

Equations ==
  {[id |-> "lorenz", arg |-> [a EXCEPT !.steps = n]] :
     a \in LorenzPresets, n \in ViewSteps}
  \cup {[id |-> "van_der_pol", arg |-> [a EXCEPT !.steps = n]] :
     a \in VanDerPolPresets, n \in ViewSteps}
  \cup {[id |-> "damped_pendulum", arg |-> [a EXCEPT !.steps = n]] :
     a \in DampedPendulumPresets, n \in ViewSteps}
  \cup {[id |-> "rossler", arg |-> [a EXCEPT !.steps = n]] :
     a \in RosslerPresets, n \in ViewSteps}

\* points, as the mounted component's render reads it
Shown == IF shown = 0 THEN << >> ELSE heap[shown]

engineIdle == << pc, fn, params, f, state, t, i, points, k1, k2, k3, k4, evals, ret >>

\* animationRef of a new component is null: no callback's id is in it
Unreferenced(cbs) == [n \in DOMAIN cbs |-> [cbs[n] EXCEPT !.current = FALSE]]

\* as Cancelled, with the call of cancelAnimationFrame left out
CancelledNone(cbs) == cbs

\* if (animationRef.current) cancelAnimationFrame(animationRef.current)
Cancelled(cbs) == SelectSeq(cbs, LAMBDA c : ~c.current)

\* animationRef.current = requestAnimationFrame(animate), animate reading length
Requested(cbs, length) ==
  Append(Unreferenced(cbs), [length |-> length, current |-> TRUE])

\* useState initial values, and the first render's effects: the animation
\* effect returns at once (points.length === 0), the solve effect is SolveX.
Mount(c) ==
  /\ pc = "idle"
  /\ view' = c
  /\ \E e \in Equations : equation' = e
  /\ shown' = 0
  /\ animatedIndex' = 0
  /\ isPlaying' = TRUE
  /\ isLoading' = TRUE
  /\ callbacks' = Unreferenced(callbacks)
  /\ cleanup' = FALSE
  /\ effectDue' = FALSE
  /\ logged' = 0
  /\ marker' = 0 - 1
  /\ heap' = << >>
  /\ UNCHANGED engineIdle
  /\ UNCHANGED << held, ncalls, buf, idx >>
  /\ UNCHANGED counts
  /\ UNCHANGED wasmVars

MountFullView == view = "none" /\ Mount("FullView")

MountVisualizationCard == view = "none" /\ Mount("VisualizationCard")

\* solve(): setIsLoading(true), then the switch on equation.id
Solving == pc = "idle" /\ view # "none" /\ isLoading

SolveLorenz == Solving /\ equation.id = "lorenz" /\ solveLorenz(equation.arg)

SolveVanDerPol == Solving /\ equation.id = "van_der_pol" /\ solveVanDerPol(equation.arg)

SolveDampedPendulum ==
  Solving /\ equation.id = "damped_pendulum" /\ solveDampedPendulum(equation.arg)

SolveRossler == Solving /\ equation.id = "rossler" /\ solveRossler(equation.arg)

\* the frame of the engine call is gone, the array it made is kept or not
Unwind ==
  /\ pc' = "idle"
  /\ fn' = "none"
  /\ params' = None
  /\ f' = None
  /\ state' = None
  /\ t' = 0
  /\ i' = 0
  /\ points' = 0
  /\ k1' = None /\ k2' = None /\ k3' = None /\ k4' = None
  /\ evals' = 0
  /\ ret' = None
  /\ stepCalls' = 0 /\ fCalls' = 0
  /\ UNCHANGED << held, ncalls, buf, idx >>
  /\ UNCHANGED wasmVars

\* as SetPoints, without the finally block
SetPointsLoading ==
  /\ pc = "done"
  /\ view # "none"
  /\ shown' = points
  /\ animatedIndex' = IF view = "FullView" THEN 0 ELSE animatedIndex
  /\ effectDue' = (Len(heap[points]) # Len(Shown))
  /\ Unwind
  /\ UNCHANGED << view, equation, isPlaying, isLoading, callbacks, cleanup, logged, marker,
                  heap >>

\* the await resumes in the try block: setPoints(result), in FullView also
\* setAnimatedIndex(0); finally setIsLoading(false).  One render commits them.
SetPoints ==
  /\ pc = "done"
  /\ view # "none"
  /\ shown' = points
  /\ animatedIndex' = IF view = "FullView" THEN 0 ELSE animatedIndex
  /\ isLoading' = FALSE
  /\ effectDue' = (Len(heap[points]) # Len(Shown))
  /\ Unwind
  /\ UNCHANGED << view, equation, isPlaying, callbacks, cleanup, logged, marker, heap >>

\* as SolveThrows, with the rows made so far handed to setPoints
SolveThrowsPartial ==
  /\ pc \in {"loop", "assign"}
  /\ view # "none"
  /\ logged' = logged + 1
  /\ isLoading' = FALSE
  /\ Unwind
  /\ shown' = points
  /\ UNCHANGED << view, equation, animatedIndex, isPlaying, callbacks, cleanup, effectDue,
                  marker, heap >>

\* the solve path throws (the host fails to grow the array): catch logs the
\* error, setPoints is skipped; finally setIsLoading(false).
SolveThrows ==
  /\ pc \in {"loop", "assign"}
  /\ view # "none"
  /\ logged' = logged + 1
  /\ isLoading' = FALSE
  /\ Unwind
  /\ heap' = IF shown = 0 THEN << >> ELSE << heap[shown] >>
  /\ shown' = IF shown = 0 THEN 0 ELSE 1
  /\ UNCHANGED << view, equation, animatedIndex, isPlaying, callbacks, cleanup, effectDue,
                  marker >>

\* the animation effect run for a render with the given isPlaying and
\* points.length: the cleanup of the run before it (if that returned one),
\* then the body, which returns early or requests a callback and returns a
\* cleanup.  FullView alone tests isPlaying and cancels on the early return.
EarlyOnEmpty(playing, length) == length = 0

Early(playing, length) == (view = "FullView" /\ ~playing) \/ length = 0

AfterCleanup == IF cleanup THEN Cancelled(callbacks) ELSE callbacks

AfterEffect(playing, length) ==
  IF Early(playing, length)
    THEN IF view = "FullView" THEN Cancelled(AfterCleanup) ELSE AfterCleanup
    ELSE Requested(AfterCleanup, length)

AnimationEffect ==
  /\ pc = "idle"
  /\ view # "none"
  /\ effectDue
  /\ effectDue' = FALSE
  /\ callbacks' = AfterEffect(isPlaying, Len(Shown))
  /\ cleanup' = ~Early(isPlaying, Len(Shown))
  /\ UNCHANGED << view, equation, shown, animatedIndex, isPlaying, isLoading, logged, marker,
                  heap, held, ncalls, buf, idx >>
  /\ UNCHANGED engineIdle
  /\ UNCHANGED counts
  /\ UNCHANGED wasmVars

\* the callbacks left when the n-th has been taken off the list to be run
Others(n) == SubSeq(callbacks, 1, n - 1) \o SubSeq(callbacks, n + 1, Len(callbacks))

\* animate, on a frame late enough: the updater reads the points.length of
\* the render its effect ran for
AnimatePastEnd(stride) ==
  /\ pc = "idle"
  /\ \E n \in DOMAIN callbacks :
       /\ animatedIndex' = IF animatedIndex + stride > callbacks[n].length
                              THEN 0
                              ELSE animatedIndex + stride
       /\ callbacks' = Requested(Others(n), callbacks[n].length)
  /\ UNCHANGED << view, equation, shown, isPlaying, isLoading, cleanup, effectDue, logged, marker,
                  heap, held, ncalls, buf, idx >>
  /\ UNCHANGED engineIdle
  /\ UNCHANGED counts
  /\ UNCHANGED wasmVars

Animate(stride) ==
  /\ pc = "idle"
  /\ \E n \in DOMAIN callbacks :
       /\ animatedIndex' = IF animatedIndex + stride >= callbacks[n].length
                              THEN 0
                              ELSE animatedIndex + stride
       /\ callbacks' = Requested(Others(n), callbacks[n].length)
  /\ UNCHANGED << view, equation, shown, isPlaying, isLoading, cleanup, effectDue, logged, marker,
                  heap, held, ncalls, buf, idx >>
  /\ UNCHANGED engineIdle
  /\ UNCHANGED counts
  /\ UNCHANGED wasmVars

AnimateFullView == view = "FullView" /\ Animate(10)

AnimateVisualizationCard == view = "VisualizationCard" /\ Animate(15)

\* the Pause/Play button: the click's render runs the animation effect
TogglePlaying ==
  /\ pc = "idle"
  /\ view = "FullView"
  /\ isPlaying' = ~isPlaying
  /\ effectDue' = FALSE
  /\ callbacks' = AfterEffect(~isPlaying, Len(Shown))
  /\ cleanup' = ~Early(~isPlaying, Len(Shown))
  /\ UNCHANGED << view, equation, shown, animatedIndex, isLoading, logged, marker,
                  heap, held, ncalls, buf, idx >>
  /\ UNCHANGED engineIdle
  /\ UNCHANGED counts
  /\ UNCHANGED wasmVars

\* the Reset button
Reset ==
  /\ pc = "idle"
  /\ view = "FullView"
  /\ animatedIndex' = 0
  /\ UNCHANGED << view, equation, shown, isPlaying, isLoading, callbacks, cleanup, effectDue,
                  logged, marker,
                  heap, held, ncalls, buf, idx >>
  /\ UNCHANGED engineIdle
  /\ UNCHANGED counts
  /\ UNCHANGED wasmVars

\* useFrame of the scene that draws the trajectory: the marker is placed at
\* points[Math.min(animatedIndex, points.length - 1)]
MarkerIndex(animatedPointIndex, length) ==
  IF animatedPointIndex < length - 1 THEN animatedPointIndex ELSE length - 1

PlaceMarker ==
  /\ pc = "idle"
  /\ view # "none"
  /\ ~isLoading
  /\ Len(Shown) > 0
  /\ marker' = MarkerIndex(animatedIndex, Len(Shown))
  /\ UNCHANGED << view, equation, shown, animatedIndex, isPlaying, isLoading, callbacks,
                  cleanup, effectDue,
                  logged, heap, held, ncalls, buf, idx >>
  /\ UNCHANGED engineIdle
  /\ UNCHANGED counts
  /\ UNCHANGED wasmVars

\* the page shows another view: the effect's cleanup cancels the callback
Unmount ==
  /\ pc = "idle"
  /\ view # "none"
  /\ view' = "none"
  /\ equation' = None
  /\ shown' = 0
  /\ animatedIndex' = 0
  /\ isPlaying' = TRUE
  /\ isLoading' = TRUE
  /\ callbacks' = IF cleanup THEN Cancelled(callbacks) ELSE callbacks
  /\ cleanup' = FALSE
  /\ effectDue' = FALSE
  /\ logged' = 0
  /\ marker' = 0 - 1
  /\ heap' = << >>
  /\ UNCHANGED << held, ncalls, buf, idx >>
  /\ UNCHANGED engineIdle
  /\ UNCHANGED counts
  /\ UNCHANGED wasmVars

NextPage ==
  \/ MountFullView
  \/ MountVisualizationCard
  \/ SolveLorenz
  \/ SolveVanDerPol
  \/ SolveDampedPendulum
  \/ SolveRossler
  \/ rk4Step
  \/ LoopBody
  \/ Return
  \/ SetPoints
  \/ SolveThrows
  \/ AnimationEffect
  \/ AnimateFullView
  \/ AnimateVisualizationCard
  \/ TogglePlaying
  \/ Reset
  \/ PlaceMarker
  \/ Unmount

SpecPage == Init /\ [][NextPage]_vars

\* the same with the scheduling of the code: the engine is synchronous and
\* the continuation of the await is a microtask, so neither waits for ever
SpecPageFair == SpecPage /\ WF_vars(rk4Step \/ LoopBody \/ Return \/ SetPoints)

\* ------------------------------------------------------------------ the glue
\* The exports of the glue statement by statement, on the module's linear
\* memory.  Where the compiled core puts a result is its allocator's choice:
\* any place clear of the regions not yet released.

\* the Float64Array cells ptr / 8 .. ptr / 8 + len - 1, counted in cells
Region(ptr, len) == (ptr + 1)..(ptr + len)

Released == UNION {Region(r.ptr, r.len) : r \in live}

FreeSpots(len) ==
  {ptr \in 0..(MemCells - len) : Region(ptr, len) \cap Released = {}}

\* the array a variable of the glue or of its caller refers to: a copy has
\* its own cells, a subarray reads the memory
Content(a) ==
  IF a.kind = "copy" THEN a.vals ELSE [k \in 1..a.len |-> memory[a.ptr + k]]

\* getArrayF64FromWasm0(ptr, len)
getArrayF64FromWasm0(ptr, len) == [kind |-> "subarray", ptr |-> ptr, len |-> len]

\* what the export of the running call computes
Result(entry, a) ==
  CASE entry = "solve_lorenz" ->
         wasm_solve_lorenz(a.sigma, a.rho, a.beta, a.x0, a.y0, a.z0, a.dt, a.steps)
    [] entry = "solve_van_der_pol" ->
         wasm_solve_van_der_pol(a.mu, a.x0, a.y0, a.dt, a.steps)
    [] entry = "solve_damped_pendulum" ->
         wasm_solve_damped_pendulum(a.gamma, a.omega0, a.theta0, a.omegaInit, a.dt, a.steps)
    [] entry = "solve_rossler" ->
         wasm_solve_rossler(a.a, a.b, a.c, a.x0, a.y0, a.z0, a.dt, a.steps)

GlueIdle == [at |-> "idle", entry |-> "none", arg |-> None, ptr |-> 0, len |-> 0,
             v1 |-> None, frees |-> 0]

glueRest == << wasmModule, initPromise, waiting, inits, instance, received, errors,
               heap, held, ncalls, buf, idx >>

\* const ret = wasm.solve_*(...): the core writes its result and returns
\* [ptr, len]
Export(entry, arg) ==
  /\ glue.at = "idle"
  /\ instance # 0
  /\ gcalls < MaxGlueCalls
  /\ \E r \in {Result(entry, arg)} :
       \E ptr \in FreeSpots(Len(r)) :
         /\ memory' = [c \in 1..MemCells |->
                         IF c \in Region(ptr, Len(r)) THEN r[c - ptr] ELSE memory[c]]
         /\ live' = live \cup {[ptr |-> ptr, len |-> Len(r)]}
         /\ glue' = [at |-> "ret", entry |-> entry, arg |-> arg, ptr |-> ptr,
                     len |-> Len(r), v1 |-> None, frees |-> 0]
  /\ UNCHANGED << kept, gcalls >>
  /\ UNCHANGED glueRest
  /\ UNCHANGED engineIdle
  /\ UNCHANGED counts
  /\ UNCHANGED pageVars

\* the presets as the wrapper passes them to the glue
GlueCalls ==
  {[entry |-> "solve_lorenz", arg |-> a] : a \in LorenzPresets}
  \cup {[entry |-> "solve_van_der_pol", arg |-> a] : a \in VanDerPolPresets}
  \cup {[entry |-> "solve_damped_pendulum", arg |-> a] : a \in DampedPendulumPresets}
  \cup {[entry |-> "solve_rossler", arg |-> a] : a \in RosslerPresets}

glue_solve == pc = "idle" /\ \E c \in GlueCalls : Export(c.entry, c.arg)

\* as Slice, without the call of slice()
SliceNone(a) == a

\* .slice(): a new array with the elements read now
Slice(a) == [kind |-> "copy", vals |-> Content(a)]

\* var v1 = getArrayF64FromWasm0(ret[0], ret[1]).slice()
TakeV1 ==
  /\ glue.at = "ret"
  /\ glue' = [glue EXCEPT !.at = "v1", !.v1 = Slice(getArrayF64FromWasm0(glue.ptr, glue.len))]
  /\ UNCHANGED << memory, live, kept, gcalls >>
  /\ UNCHANGED glueRest
  /\ UNCHANGED engineIdle
  /\ UNCHANGED counts
  /\ UNCHANGED pageVars

\* wasm.__wbindgen_free(ret[0], ret[1] * 8, 8)
FreeRet ==
  /\ glue.at = "v1"
  /\ live' = live \ {[ptr |-> glue.ptr, len |-> glue.len]}
  /\ glue' = [glue EXCEPT !.at = "freed", !.frees = glue.frees + 1]
  /\ UNCHANGED << memory, kept, gcalls >>
  /\ UNCHANGED glueRest
  /\ UNCHANGED engineIdle
  /\ UNCHANGED counts
  /\ UNCHANGED pageVars

\* return v1: the caller keeps the array of its first call and what it reads
\* from it
ReturnV1 ==
  /\ glue.at = "freed"
  /\ kept' = IF kept = None THEN [array |-> glue.v1, seen |-> Content(glue.v1)] ELSE kept
  /\ gcalls' = gcalls + 1
  /\ glue' = GlueIdle
  /\ UNCHANGED << memory, live >>
  /\ UNCHANGED glueRest
  /\ UNCHANGED engineIdle
  /\ UNCHANGED counts
  /\ UNCHANGED pageVars

\* initWasm() called for the first time
Load ==
  /\ pc = "idle"
  /\ initPromise = "null"
  /\ initWasm
  /\ UNCHANGED << waiting, inits, instance, received, errors, heap, held, ncalls >>
  /\ UNCHANGED glueVars
  /\ UNCHANGED engineIdle
  /\ UNCHANGED counts
  /\ UNCHANGED hostVars

NextGlue ==
  \/ Load
  \/ ImportFulfilled
  \/ InitFulfilled
  \/ glue_solve
  \/ TakeV1
  \/ FreeRet
  \/ ReturnV1

SpecGlue == Init /\ [][NextGlue]_vars

\* ================================================================ claims

\* the array of the call that is running or has just returned
Traj == IF points = 0 THEN << >> ELSE heap[points]

\* the state behind an emitted point: the point without the appended zero
Behind(p) == IF Is3D THEN << p[1], p[2], p[3] >> ELSE << p[1], p[2] >>

AllFinite(v) == \A n \in DOMAIN v : isFinite(v[n])

\* the derivative function of the running entry point, built from the
\* parameters the caller supplied
Supplied ==
  CASE fn = "solveLorenz" ->
         [kind |-> "lorenz", sigma |-> params.sigma, rho |-> params.rho, beta |-> params.beta]
    [] fn = "solveVanDerPol" ->
         [kind |-> "vdp", mu |-> params.mu]
    [] fn = "solveDampedPendulum" ->
         [kind |-> "pendulum", gamma |-> params.gamma, omega0 |-> params.omega0]
    [] fn = "solveRossler" ->
         [kind |-> "rossler", a |-> params.a, b |-> params.b, c |-> params.c]

\* point j of the trajectory is one step from point j - 1, taken at time (j - 2) * dt
StepFrom(j) ==
  Behind(Traj[j]) =
    IntegratorStep(Supplied, Mul(j - 2, params.dt), Behind(Traj[j - 1]), params.dt)

\* C1: in every call of the four entry points, each trajectory point after
\* the first is one integrator step, with step size dt and time (i-1)*dt,
\* from the point before it, under the derivative function built from the
\* supplied parameters; the points are appended in the order of the steps,
\* the last one being the current state, and a finished call has all of
\* the points 1..steps.
StepRecurrence ==
  pc # "idle" =>
    /\ \A j \in 2..Len(Traj) : StepFrom(j)
    /\ pc = "loop" => (Len(Traj) = i + 1 /\ Behind(Traj[i + 1]) = state)
    /\ pc = "done" => \A n \in 1..params.steps : n + 1 <= Len(Traj)

\* a finished two-step Lorenz call whose steps both moved the state
StepRecurrenceWitness ==
  /\ pc = "done" /\ fn = "solveLorenz" /\ params.steps = 2
  /\ Len(Traj) = 3
  /\ AllFinite(Traj[2]) /\ AllFinite(Traj[3])
  /\ Traj[1] # Traj[2] /\ Traj[2] # Traj[3] /\ Traj[1] # Traj[3]

\* C2: a call with a non-negative step count returns exactly steps + 1 points.
LengthIsStepsPlusOne ==
  (pc = "done" /\ params.steps >= 0) => Len(Traj) = params.steps + 1

LengthWitness ==
  /\ pc = "done" /\ fn = "solveVanDerPol" /\ params.steps = MaxSteps
  /\ Len(Traj) = MaxSteps + 1

\* the initial point an entry point is to emit for its argument
InitialPoint ==
  CASE fn = "solveLorenz"         -> << params.x0, params.y0, params.z0 >>
    [] fn = "solveRossler"        -> << params.x0, params.y0, params.z0 >>
    [] fn = "solveVanDerPol"      -> << params.x0, params.y0, 0 >>
    [] fn = "solveDampedPendulum" -> << params.theta0, params.omegaInit, 0 >>

\* C3: the first point of every trajectory is the supplied initial state,
\* with a zero third coordinate for the two-dimensional systems, at every
\* moment of the call and whatever dt, steps and parameters are.
FirstPointIsInitial ==
  pc # "idle" => (Len(Traj) >= 1 /\ Traj[1] = InitialPoint)

FirstPointWitness ==
  /\ pc = "done" /\ fn = "solveDampedPendulum" /\ params.steps = 2
  /\ params.theta0 # params.omegaInit
  /\ Traj[3] # Traj[1]

\* the n-th derivative value of the step in progress
KOf(n) == << k1, k2, k3, k4 >>[n]

\* C4: one step calls f exactly four times, in the order k1, k2, k3, k4,
\* with k1 = f(t, y), k2 = f(t + dt/2, y + k1*dt/2),
\* k3 = f(t + dt/2, y + k2*dt/2), k4 = f(t + dt, y + k3*dt), and returns
\* y + (k1 + 2*k2 + 2*k3 + k4) * dt/6 in every component.
Rk4Formula ==
  LET y  == state
      dt == params.dt
      c1 == Apply(f, t, y)
      a2 == << Add(t, Div(dt, 2)), AxpyDiv(y, c1, dt, 2) >>
      c2 == Apply(f, a2[1], a2[2])
      a3 == << Add(t, Div(dt, 2)), AxpyDiv(y, c2, dt, 2) >>
      c3 == Apply(f, a3[1], a3[2])
      a4 == << Add(t, dt), Axpy(y, c3, dt) >>
      c4 == Apply(f, a4[1], a4[2])
      expected == << << t, y >>, a2, a3, a4 >>
      done(n) == evals = SubSeq(expected, 1, n) /\ \A m \in 1..n : KOf(m) = << c1, c2, c3, c4 >>[m]
  IN  /\ pc = "loop" => evals = << >>
      /\ pc = "k2" => done(1)
      /\ pc = "k3" => done(2)
      /\ pc = "k4" => done(3)
      /\ pc = "ret" => done(4)
      /\ pc = "assign" => (done(4) /\ ret = AxpyDiv(y, KSum(c1, c2, c3, c4), dt, 6))

Rk4FormulaWitness ==
  /\ pc = "assign" /\ fn = "solveRossler" /\ i = 1
  /\ AllFinite(ret) /\ ret # state
  /\ k1 # k2 /\ k2 # k3 /\ k3 # k4

\* the catalog's derivative formulas
CatalogLorenz(sigma, rho, beta, x, y, z) ==
  << Mul(sigma, Sub(y, x)), Sub(Mul(x, Sub(rho, z)), y), Sub(Mul(x, y), Mul(beta, z)) >>
CatalogVanDerPol(mu, x, y) ==
  << y, Sub(Mul(Mul(mu, Sub(1, Mul(x, x))), y), x) >>
CatalogRossler(a, b, c, x, y, z) ==
  << Sub(Neg(y), z), Add(x, Mul(a, y)), Add(b, Mul(z, Sub(x, c))) >>

\* C5: every value the Lorenz, Van der Pol and Roessler derivative functions
\* return is the catalog formula of the state they were called with and of
\* the parameters supplied to the entry point.
PolynomialDerivatives ==
  \A n \in 1..Len(evals) :
    LET s == evals[n][2]
    IN  /\ fn = "solveLorenz" =>
             KOf(n) = CatalogLorenz(params.sigma, params.rho, params.beta, s[1], s[2], s[3])
        /\ fn = "solveVanDerPol" =>
             KOf(n) = CatalogVanDerPol(params.mu, s[1], s[2])
        /\ fn = "solveRossler" =>
             KOf(n) = CatalogRossler(params.a, params.b, params.c, s[1], s[2], s[3])

PolynomialDerivativesWitness ==
  /\ pc = "assign" /\ fn = "solveVanDerPol"
  /\ AllFinite(k4) /\ k4[1] # 0 /\ k4[2] # 0 /\ k4[2] # 0 - evals[4][2][1]

\* C6: every value the damped-pendulum derivative function returns is
\* (omega, -gamma*omega - omega0^2 * sin(theta)) for the state (theta, omega)
\* it was called with and the supplied gamma and omega0.
PendulumDerivative ==
  \A n \in 1..Len(evals) :
    fn = "solveDampedPendulum" =>
      LET theta == evals[n][2][1]
          omega == evals[n][2][2]
      IN  KOf(n) = << omega,
                      Sub(Neg(Mul(params.gamma, omega)),
                          Mul(Mul(params.omega0, params.omega0), MathSin(theta))) >>

PendulumDerivativeWitness ==
  /\ pc = "assign" /\ fn = "solveDampedPendulum"
  /\ AllFinite(k3) /\ evals[3][2][2] # 0
  /\ MathSin(evals[3][2][1]) # 0
  /\ params.omega0 = 2

TwoDimensional ==
  fn \in {"solveVanDerPol", "solveDampedPendulum",
          "wasm.solveVanDerPol", "wasm.solveDampedPendulum"}

\* C7: every point of the array of a Van der Pol or damped-pendulum call,
\* of the TypeScript module or of the WebAssembly wrapper, has the third
\* coordinate 0, from the first push to the return.
ZeroThirdCoordinate ==
  (pc # "idle" /\ TwoDimensional) => \A j \in 1..Len(Traj) : Traj[j][3] = 0

ZeroThirdCoordinateWitness ==
  /\ pc = "done" /\ fn = "solveVanDerPol" /\ Len(Traj) = MaxSteps + 1
  /\ \A j \in 1..Len(Traj) : Traj[j][1] # 0 /\ Traj[j][2] # 0

\* C8: a call of an entry point with the argument of the call the caller
\* kept returns what that call returned: the same number of points and the
\* same three coordinates at every index.
Deterministic ==
  (pc = "done" /\ held # None /\ held.entry = fn /\ held.arg = params) =>
    /\ Len(Traj) = Len(held.seen)
    /\ \A j \in 1..Len(Traj) : \A c \in 1..3 : Traj[j][c] = held.seen[j][c]

DeterministicWitness ==
  /\ pc = "done" /\ held # None /\ held.entry = fn /\ held.arg = params
  /\ fn = "solveRossler" /\ params.steps = MaxSteps
  /\ AllFinite(Traj[MaxSteps + 1]) /\ Traj[MaxSteps + 1] # Traj[1]

Positions == {"idle", "loop", "k2", "k3", "k4", "ret", "assign", "done"}

\* C10: no entry point refuses an argument or fails: at rest every argument
\* is accepted, a call is always at a position of the normal control flow,
\* what it returns is an array of at least one point with three numbers
\* each, and under a negative dt every point is one step with that dt from
\* the point before it.
NoFailurePath ==
  /\ pc \in Positions
  /\ pc = "idle" =>
       /\ \A arg \in LorenzInputs : ENABLED solveLorenz(arg)
       /\ \A arg \in VanDerPolInputs : ENABLED solveVanDerPol(arg)
       /\ \A arg \in DampedPendulumInputs : ENABLED solveDampedPendulum(arg)
       /\ \A arg \in RosslerInputs : ENABLED solveRossler(arg)
  /\ pc = "done" =>
       /\ Len(Traj) >= 1
       /\ \A j \in 1..Len(Traj) : Len(Traj[j]) = 3 /\ \A c \in 1..3 : Traj[j][c] \in Num
  /\ (pc # "idle" /\ params.dt < 0) => \A j \in 2..Len(Traj) : StepFrom(j)

\* a finished call with a negative dt whose state left the finite numbers
NoFailurePathWitness ==
  /\ pc = "done" /\ params.dt < 0 /\ params.steps = 2 /\ Len(Traj) = 3
  /\ AllFinite(Traj[1]) /\ AllFinite(Traj[2]) /\ Traj[2] # Traj[1]
  /\ ~AllFinite(Traj[3])

\* C9: nothing a call leaves behind reaches another call: a call with the
\* entry point and argument of the kept call returns the kept coordinates
\* whatever calls of either module ran or are suspended in between, the
\* array of a running or returned later call is never the kept array, and
\* the kept array holds at every moment what the caller read from it.
NoRetainedState ==
  held # None =>
    /\ heap[held.array] = held.seen
    /\ pc # "idle" => points # held.array
    /\ (pc = "done" /\ held.entry = fn /\ held.arg = params) => Traj = held.seen

\* the kept Lorenz call repeated while a Roessler call of the wrapper is suspended
NoRetainedStateWitness ==
  /\ pc = "done" /\ held # None /\ held.entry = fn /\ held.arg = params
  /\ fn = "solveLorenz" /\ ncalls >= 2
  /\ waiting # << >> /\ Head(waiting).entry = "wasm.solveRossler"
  /\ Traj[MaxSteps + 1] # Traj[1]

\* the sum k1 + 2*k2 + 2*k3 + k4 of a step that does not move: all four
\* derivative values are the one at the initial state
RestSum ==
  LET k == Apply(Supplied, 0, Behind(InitialPoint))
  IN  [n \in DOMAIN k |-> Add(Add(Add(k[n], Mul(2, k[n])), Mul(2, k[n])), k[n])]

\* C11 as stated: a finished call with dt = 0 holds the initial point at
\* every index.
ConstantAtZeroDt ==
  (pc = "done" /\ params.dt = 0) => \A j \in 1..Len(Traj) : Traj[j] = InitialPoint

\* C11: a finished call with dt = 0 whose initial state is finite and whose
\* sum k1 + 2*k2 + 2*k3 + k4 at the initial state is finite in every
\* component holds the initial point at every index.
ConstantAtZeroDtWhenFinite ==
  (pc = "done" /\ params.dt = 0 /\ AllFinite(InitialPoint) /\ AllFinite(RestSum)) =>
    \A j \in 1..Len(Traj) : Traj[j] = InitialPoint

\* a Lorenz call at rest for MaxSteps steps although its derivative is not zero
ConstantAtZeroDtWitness ==
  /\ pc = "done" /\ params.dt = 0 /\ fn = "solveLorenz" /\ params.steps = MaxSteps
  /\ AllFinite(RestSum) /\ \A n \in 1..3 : RestSum[n] # 0
  /\ Len(Traj) = MaxSteps + 1 /\ Traj[MaxSteps + 1] = InitialPoint

\* C12: on a buffer of n * d numbers the loops return exactly n points, point
\* i being (data[3i], data[3i+1], data[3i+2]) for toVector3Array and
\* (data[2i], data[2i+1], 0) for toVector3Array2D, in the buffer's order; on
\* any buffer they return what the wrapper's entry points take them to return.
UnflattenExact ==
  /\ (pc = "done" /\ fn = "toVector3Array") =>
       /\ \A n \in 0..MaxLen : Len(buf) = n * 3 =>
            /\ Len(Traj) = n
            /\ \A j \in 0..(n - 1) :
                 Traj[j + 1] = << buf[3 * j + 1], buf[3 * j + 2], buf[3 * j + 3] >>
       /\ Traj = toVector3Array(buf, 3)
  /\ (pc = "done" /\ fn = "toVector3Array2D") =>
       /\ \A n \in 0..MaxLen : Len(buf) = n * 2 =>
            /\ Len(Traj) = n
            /\ \A j \in 0..(n - 1) : Traj[j + 1] = << buf[2 * j + 1], buf[2 * j + 2], 0 >>
       /\ Traj = toVector3Array2D(buf)

\* two different three-dimensional points regrouped from six numbers
UnflattenExactWitness ==
  /\ pc = "done" /\ fn = "toVector3Array" /\ Len(buf) = 6
  /\ Len(Traj) = 2 /\ Traj[1] # Traj[2]
  /\ Traj[1][1] # Traj[1][2] /\ Traj[1][2] # Traj[1][3]

\* the number of steps a call with the running argument is to make
StepsToMake == IF params.steps >= 0 THEN params.steps ELSE 0

\* C13: a call that has started reaches its return, and at the return it has
\* called the stepper exactly steps times and the derivative function
\* exactly 4 * steps times, whether or not the state stayed finite; on the
\* way the counts never exceed these.
RunsToCompletion ==
  /\ [](pc \in {"loop", "k2", "k3", "k4", "ret", "assign"} =>
          (stepCalls <= StepsToMake /\ fCalls <= 4 * StepsToMake))
  /\ [](pc = "done" => (stepCalls = StepsToMake /\ fCalls = 4 * StepsToMake))
  /\ (pc = "loop" ~> pc = "done")

\* a finished call of MaxSteps steps whose state was not finite after the first
RunsToCompletionWitness ==
  /\ pc = "done" /\ fn = "solveRossler" /\ params.steps = MaxSteps
  /\ ~AllFinite(Traj[2])
  /\ stepCalls = MaxSteps /\ fCalls = 4 * MaxSteps /\ Len(Traj) = MaxSteps + 1

\* a statement of rk4Step2D / rk4Step3D is executed
Stepping ==
  /\ pc \in {"loop", "k2", "k3", "k4", "ret"}
  /\ pc' \in {"k2", "k3", "k4", "ret", "assign"}

\* C14: no statement of the steppers changes its input y, its other
\* arguments or any array, the value it returns is held apart from y until
\* the loop assigns it, and no statement of a call changes a point the call
\* has already pushed: the array only grows.
NoSideEffects ==
  [][/\ Stepping =>
          /\ state' = state /\ t' = t /\ f' = f /\ params' = params
          /\ heap' = heap
     /\ (pc # "idle" /\ pc' # "idle") =>
          /\ points' = points
          /\ \A j \in 1..Len(Traj) : (j <= Len(Traj') /\ Traj'[j] = Traj[j])]_vars

\* the second step of a call has returned a tuple that differs from its
\* input, and both points pushed so far are as they were pushed
NoSideEffectsWitness ==
  /\ pc = "assign" /\ i = 1 /\ fn = "solveVanDerPol"
  /\ AllFinite(ret) /\ ret # state
  /\ Len(Traj) = 2 /\ Traj[1] = InitialPoint /\ Behind(Traj[2]) = state
  /\ Traj[1] # Traj[2]

\* time values other than the ones a call threads through its steps
TimeVals == {NegInf, 0 - MaxFinite, 0 - 1, 0, 1, 7, MaxFinite, PosInf, NaN}

\* the states of the running call's trajectory
TrajStates == [j \in 1..Len(Traj) |-> Behind(Traj[j])]

\* C15: every derivative value a step has computed is the value of the
\* derivative function at the same state for every other time argument,
\* and the trajectory of a finished call is the one obtained by threading
\* the times from any other start value.
Autonomous ==
  /\ pc \in {"k2", "k3", "k4", "ret", "assign"} =>
       \A n \in 1..Len(evals) : \A tt \in TimeVals :
         Apply(f, tt, evals[n][2]) = KOf(n)
  /\ (pc = "done" /\ params.steps >= 0) =>
       \A tt \in TimeVals :
         TrajStates = CoreTrajectory(Supplied, Behind(InitialPoint), tt, params.dt, params.steps)

\* the four derivative values of a later step, taken at three different times
AutonomousWitness ==
  /\ pc = "ret" /\ fn = "solveVanDerPol" /\ i = 1 /\ Len(evals) = 4
  /\ evals[1][1] # 0 /\ evals[2][1] # evals[1][1] /\ evals[4][1] # evals[2][1]
  /\ \A n \in 1..4 : AllFinite(KOf(n)) /\ KOf(n)[2] # 0

\* C17 as stated: whatever g, (a, b, c), t and dt are, rk4Step3D on the
\* lifted field returns (p, q, c), (p, q) being what rk4Step2D returned.
SameAlgorithm ==
  (pc = "done" /\ fn = "rk4Step3D") =>
    ret = << held.seen[1], held.seen[2], params.y[3] >>

\* C17: for a finite dt, whatever g, (a, b, c) and t are, rk4Step3D on the
\* lifted field returns (p, q, c), (p, q) being what rk4Step2D returned, and
\* for any dt its first two components are (p, q).
SameAlgorithmFiniteDt ==
  (pc = "done" /\ fn = "rk4Step3D") =>
    /\ << ret[1], ret[2] >> = held.seen
    /\ isFinite(params.dt) => ret[3] = params.y[3]

\* a step of the lifted oscillator that moved both of g's components
SameAlgorithmWitness ==
  /\ pc = "done" /\ fn = "rk4Step3D" /\ params.g.kind = "vdp"
  /\ isFinite(params.dt) /\ params.dt # 0 /\ params.t # 0
  /\ AllFinite(ret) /\ ret[1] # params.y[1] /\ ret[2] # params.y[2]
  /\ params.y[3] # 0
  /\ k1 # k2 /\ k3 # k4

\* C18: while the animation plays, a frame that updates the index sets it to
\* animatedIndex + stride when that is below points.length and to 0 otherwise
\* (stride 10 in FullView, 15 in VisualizationCard); so whenever the shown
\* trajectory is non-empty 0 <= animatedIndex < points.length, and the index
\* the marker is placed at is an index of the trajectory.
StrideOf(c) == IF c = "FullView" THEN 10 ELSE 15

IndexInRange ==
  view # "none" /\ Len(Shown) > 0
    => /\ 0 <= animatedIndex /\ animatedIndex < Len(Shown)
       /\ marker # 0 - 1 => 0 <= marker /\ marker < Len(Shown)

PlaybackIndex ==
  /\ []IndexInRange
  /\ [][(AnimateFullView \/ AnimateVisualizationCard)
          => animatedIndex' = IF animatedIndex + StrideOf(view) < Len(Shown)
                                THEN animatedIndex + StrideOf(view)
                                ELSE 0]_vars

PlaybackIndexWitness ==
  /\ view = "VisualizationCard"
  /\ Len(Shown) = MaxViewSteps + 1
  /\ animatedIndex = 30
  /\ marker = 15

\* C19: when the solve path of a mounted component throws, the error is
\* logged and goes no further (the component stays mounted and leaves the
\* loading state), and the trajectory it renders from then on is empty.
Failed == view # "none" /\ logged > 0

SolveFailure ==
  /\ [](Failed => ~isLoading /\ Len(Shown) = 0 /\ callbacks = << >>)
  /\ [][SolveThrows => /\ logged' = logged + 1
                        /\ view' = view
                        /\ pc' = "idle"
                        /\ ~isLoading'
                        /\ shown' = 0]_vars

SolveFailureWitness ==
  /\ Failed
  /\ view = "FullView"
  /\ ~isPlaying
  /\ Len(Shown) = 0
  /\ equation.arg.steps = MaxViewSteps

\* C20: however the calls of the wrapper and the steps of the loading
\* interleave, the module's initializer is invoked at most once, and every
\* caller that resumes with a module is given the one instance that
\* invocation made.
InitializedOnce ==
  /\ inits <= 1
  /\ instance \in {0, 1}
  /\ received \subseteq {1}

\* a caller has resumed with the module while another call is suspended
InitializedOnceWitness ==
  /\ pc = "done" /\ fn = "wasm.solveRossler"
  /\ inits = 1 /\ received = {1}
  /\ Len(waiting) = MaxWaiting - 1

\* C21: a failed loading is never retried.  Once the import or the
\* initializer has rejected, wasmModule stays null and initPromise stays the
\* rejected promise, no import or initializer is started again, no wrapper
\* call resumes with a module, and every call that resumes throws the one
\* rejection of that promise.
RejectedForGood ==
  /\ (inits >= 1 /\ instance = 0 /\ initPromise # "initializing")
       => (initPromise = "init rejected")
  /\ Rejected => (wasmModule = "null" /\ instance = 0 /\ received = {})
  /\ (errors # {}) => (Rejected /\ errors = {initPromise})

NeverRetried ==
  /\ []RejectedForGood
  /\ [][Rejected => /\ initPromise' = initPromise
                     /\ wasmModule' = wasmModule
                     /\ inits' = inits
                     /\ (pc' = "done") => (fn' \in {"solveLorenz", "solveVanDerPol",
                                                     "solveDampedPendulum", "solveRossler"})]_vars

\* the initializer has rejected, a call has thrown its rejection and a
\* later call is suspended on the same promise
NeverRetriedWitness ==
  /\ initPromise = "init rejected" /\ inits = 1
  /\ errors = {"init rejected"}
  /\ waiting # << >>
  /\ ncalls >= 2

\* C22: at every moment at most one animate callback is pending, it is
\* the one whose id animationRef holds, and it reads the length of the
\* trajectory shown; once the component is unmounted none is pending.
OneCallbackPending ==
  /\ Len(callbacks) <= 1
  /\ \A n \in DOMAIN callbacks : callbacks[n].current /\ callbacks[n].length = Len(Shown)
  /\ view = "none" => callbacks = << >>

\* the one callback of a FullView that plays and has gone round the longest
\* trajectory once
OneCallbackPendingWitness ==
  /\ view = "FullView" /\ isPlaying /\ ~effectDue
  /\ callbacks = << [length |-> MaxViewSteps + 1, current |-> TRUE] >>
  /\ animatedIndex = 20
  /\ marker = 30

Paused == view = "FullView" /\ ~isPlaying

\* C23: while FullView is paused no animate callback is pending and no
\* frame changes animatedIndex: a step from a paused state either leaves the
\* index as it is or is Reset or a completed solve and sets it to 0; the
\* Pause/Play button leaves the index as it is, so play resumes from it.
PausedIndexHeld ==
  /\ [](Paused => callbacks = << >>)
  /\ [][(Paused /\ view' = view) =>
           (\/ animatedIndex' = animatedIndex
            \/ (Reset \/ SetPoints) /\ animatedIndex' = 0)]_vars
  /\ [][TogglePlaying => animatedIndex' = animatedIndex]_vars

\* paused at index 20 of the longest trajectory
PausedIndexHeldWitness ==
  /\ Paused /\ ~isLoading
  /\ Len(Shown) = MaxViewSteps + 1
  /\ animatedIndex = 20
  /\ marker = 10

\* a solve of the mounted component has ended, returning or throwing
Solved == view # "none" /\ (shown # 0 \/ logged > 0)

\* C24: a solve starts with isLoading true and, whether it returns or
\* throws, ends with isLoading false: a component whose solve is running
\* is loading and later is not, and a component whose solve has ended is
\* not loading.
LoadingEnds ==
  /\ []((view # "none" /\ pc # "idle") => isLoading)
  /\ [](Solved => ~isLoading)
  /\ ((view # "none" /\ pc = "loop") ~> ~isLoading)

\* the longest solve of a card has returned and the card is not loading
LoadingEndsWitness ==
  /\ view = "VisualizationCard" /\ pc = "idle"
  /\ Len(Shown) = MaxViewSteps + 1
  /\ ~isLoading /\ logged = 0

\* C25: a call with a negative step count is accepted like any other, makes
\* no call of the stepper or of the derivative function, and returns an
\* array of exactly one point, the initial state.
NegativeSteps ==
  /\ pc = "idle" =>
       /\ \A arg \in LorenzInputs : arg.steps < 0 => ENABLED solveLorenz(arg)
       /\ \A arg \in VanDerPolInputs : arg.steps < 0 => ENABLED solveVanDerPol(arg)
       /\ \A arg \in DampedPendulumInputs : arg.steps < 0 => ENABLED solveDampedPendulum(arg)
       /\ \A arg \in RosslerInputs : arg.steps < 0 => ENABLED solveRossler(arg)
  /\ (pc # "idle" /\ params.steps < 0) =>
       /\ pc \in {"loop", "done"}
       /\ stepCalls = 0 /\ fCalls = 0
       /\ Len(Traj) = 1 /\ Traj[1] = InitialPoint

\* a returned pendulum call with steps = -1, a step that is not zero and an
\* initial state that is not at rest
NegativeStepsWitness ==
  /\ pc = "done" /\ fn = "solveDampedPendulum" /\ params.steps < 0
  /\ params.dt # 0 /\ params.theta0 # 0 /\ params.omegaInit # 0
  /\ Len(Traj) = 1

\* the region of the running call of the glue
Ret == [ptr |-> glue.ptr, len |-> glue.len]

\* C26: a call of a glue export takes its array as a copy of the result
\* while the result's region is still allocated, releases the region
\* exactly once, after the copy, and leaves nothing allocated; the array a
\* caller was returned holds what the caller read from it whatever is
\* released or written by later calls.
CopiedBeforeFreed ==
  /\ glue.at \in {"ret", "v1"} => (Ret \in live /\ glue.frees = 0)
  /\ glue.at \in {"v1", "freed"} =>
       (glue.v1.kind = "copy" /\ glue.v1.vals = Result(glue.entry, glue.arg))
  /\ glue.at = "freed" => (Ret \notin live /\ glue.frees = 1)
  /\ glue.at = "idle" => live = {}
  /\ kept # None => (kept.array.kind = "copy" /\ Content(kept.array) = kept.seen)

\* a Lorenz result is kept and a later Roessler call, whose region shares
\* cells with the released one, has written other numbers there
CopiedBeforeFreedWitness ==
  /\ kept # None /\ Len(kept.seen) = 3 * (MaxSteps + 1)
  /\ glue.at = "freed" /\ glue.entry = "solve_rossler"
  /\ glue.v1.vals # kept.seen
  /\ \A ptr \in 0..(MemCells - Len(kept.seen)) :
       \E k \in 1..Len(kept.seen) : memory[ptr + k] # kept.seen[k]

====
